---- MODULE Spec2Model ----
(***************************************************************************)
(* A model of examples/kepler-integration/src/factories/load-data-modal.js *)
(*                                                                         *)
(* The file holds two independent programs:                                *)
(*   1. the factory override of kepler.gl's LoadDataModal (lines 21-56),   *)
(*      checked under SpecModal;                                           *)
(*   2. the terrain demo App with its keyframe getters (lines 58-289),     *)
(*      checked under SpecApp.                                             *)
(***************************************************************************)
EXTENDS Integers, Sequences, FiniteSets, TLC

\* ------------------------------------------------------------------ bounds
\* longest default loadingMethods list of the underlying modal
MaxDefaults == 2
\* longest dependency list handed to a factory
MaxDeps == 2
\* number of CustomLoadDataModalFactory invocations explored
MaxInvocations == 2
\* number of camera poses, besides INITIAL_VIEW_STATE, the user can move to
MaxPoses == 2

VARIABLES
    \* ---- part 1: the modal factory override
    factoryDeps,      \* LoadDataModalFactory.deps
    customDeps,       \* CustomLoadDataModalFactory.deps
    factoryDefaults,  \* defaultProps of a component freshly built by LoadDataModalFactory
    sharedComponent,  \* TRUE: LoadDataModalFactory returns the same component on every call
    defaultProps,     \* LoadDataModal.defaultProps of the component last returned
    factoryCalls,     \* argument lists of the calls made to LoadDataModalFactory by the last invocation
    lastDeps,         \* deps received by the last CustomLoadDataModalFactory invocation
    lastResult,       \* what the last invocation returned (or threw)
    invocations,      \* number of CustomLoadDataModalFactory invocations so far
    before,           \* history: defaultProps of the component as the last invocation found it
    afterFirst,       \* history: defaultProps after the first invocation
    replaced,         \* what replaceLoadDataModal last returned
    \* ---- part 2: the demo App
    ready, busy, viewState, viewStateA, viewStateB, rainbow, cameraMode,
    view,             \* what the current render of App hands to its children
    recording,        \* the keyframes the adapter was handed when a render was started
    lastEvent,        \* history: the handler that ran last
    leftPrerecorded,  \* history: cameraMode has been something else than 'prerecorded'
    signalled         \* history: the adapter has called setReady(true)

modalVars == <<factoryDeps, customDeps, factoryDefaults, sharedComponent, defaultProps,
               factoryCalls, lastDeps, lastResult, invocations, before, afterFirst, replaced>>
appVars == <<ready, busy, viewState, viewStateA, viewStateB, rainbow, cameraMode,
             view, recording, lastEvent, leftPrerecorded, signalled>>
vars == <<modalVars, appVars>>

\* ====================================================================
\* Part 1: the LoadDataModal factory override
\* ====================================================================

\* JavaScript's undefined, as a list entry (what Array.prototype.find returns on no match)
Undefined == [jsType |-> "undefined"]

\* imported values, opaque here
LOADING_METHODS == [sample |-> "sample"]
SampleMapGallery == "SampleMapGallery"
SampleMapsTab == "SampleMapsTab"
loadSample == "loadSample"
loadSampleConfigurations == "loadSampleConfigurations"

additionalMethods ==
    [sample |-> [id |-> LOADING_METHODS.sample,
                 label |-> "Sample Maps",
                 elementType |-> SampleMapGallery,
                 tabElementType |-> SampleMapsTab]]

\* loading methods the underlying modal may ship by default
DefaultMethodUniverse ==
    { [id |-> "upload", label |-> "Load Files", elementType |-> "FileUpload"],
      [id |-> "upload", label |-> "Load Files (legacy)", elementType |-> "FileUploadV1"],
      [id |-> "storage", label |-> "Load from Storage", elementType |-> "LoadStorageData"],
      [id |-> "sample", label |-> "Built-in Samples", elementType |-> "BuiltinSamples"] }

\* default props of the underlying modal other than loadingMethods
OtherDefaultProps ==
    { [k \in {} |-> FALSE],
      [fileLoading |-> FALSE],
      [fileLoading |-> TRUE, onFileUpload |-> "noop"] }

SeqsUpTo(S, n) == UNION { [1..k -> S] : k \in 0..n }

\* instances the injector can hand to a factory
DepValues == {"depA", "depB"}

\* factories a dependency list can name
DepFactories == <<"ModalTabsFactory", "FileUploadFactory", "LoadStorageDataFactory", "ModalDialogFactory">>

\* the dependency lists LoadDataModalFactory may declare
DepLists == { SubSeq(DepFactories, 1, k) : k \in 0..(IF MaxDeps < Len(DepFactories) THEN MaxDeps ELSE Len(DepFactories)) }

\* {...props, loadingMethods: methods}
SpreadWithLoadingMethods(props, methods) ==
    [k \in (DOMAIN props) \cup {"loadingMethods"} |->
        IF k = "loadingMethods" THEN methods ELSE props[k]]

\* lm => lm.id === 'upload'; reading .id of undefined is a TypeError
IsUploadThrows(lm) == lm = Undefined
IsUpload(lm) == "id" \in DOMAIN lm /\ lm.id = "upload"

\* index of the first entry Array.prototype.find stops at: the first match, or the
\* first entry on which the callback throws; 0 when it runs through the whole list
FindStop(methods) ==
    LET stops == { i \in 1..Len(methods) : IsUploadThrows(methods[i]) \/ IsUpload(methods[i]) }
    IN  IF stops = {} THEN 0 ELSE CHOOSE i \in stops : \A j \in stops : i <= j

FindThrows(methods) ==
    FindStop(methods) # 0 /\ IsUploadThrows(methods[FindStop(methods)])

\* defaultLoadingMethods.find(lm => lm.id === 'upload'), when it does not throw
FindUpload(methods) ==
    IF FindStop(methods) = 0 THEN Undefined ELSE methods[FindStop(methods)]

\* variant: the sample method appended to all the defaults
AppendingLoadingMethods(defaultLoadingMethods) ==
    Append(defaultLoadingMethods, additionalMethods.sample)

\* variant: the last upload method kept instead of the first
LastUploadLoadingMethods(defaultLoadingMethods) ==
    LET ups == { i \in 1..Len(defaultLoadingMethods) : IsUpload(defaultLoadingMethods[i]) }
    IN  << IF ups = {} THEN Undefined
           ELSE defaultLoadingMethods[CHOOSE i \in ups : \A j \in ups : j <= i],
           additionalMethods.sample >>

\* the new loadingMethods array literal of line 43
NewLoadingMethods(defaultLoadingMethods) ==
    <<FindUpload(defaultLoadingMethods), additionalMethods.sample>>

\* variant: the spread of the old defaultProps forgotten
DroppingDefaultProps(LoadDataModal, methods) ==
    [loadingMethods |-> methods]

\* the object literal assigned to LoadDataModal.defaultProps, lines 41-44
NewDefaultProps(LoadDataModal, methods) ==
    SpreadWithLoadingMethods(LoadDataModal, methods)

\* withState([], mapStateToProps, actions)(LoadDataModal)
withState(component) ==
    [type |-> "withState",
     lenses |-> <<>>,
     actions |-> [onLoadSample |-> loadSample,
                  loadSampleConfigurations |-> loadSampleConfigurations],
     component |-> component]

\* the component LoadDataModalFactory(...deps) returns, as its defaultProps
LoadDataModalFactory(deps) ==
    IF sharedComponent THEN defaultProps ELSE factoryDefaults

Reverse(s) == [i \in 1..Len(s) |-> s[Len(s) + 1 - i]]

\* variant: the dependencies handed on in reverse order
ReversedFactoryCalls(deps) == << Reverse(deps) >>

\* the calls CustomLoadDataModalFactory makes to LoadDataModalFactory: one, with ...deps
OriginalFactoryCalls(deps) == << deps >>

\* CustomLoadDataModalFactory.deps = LoadDataModalFactory.deps
InheritedDeps(original) == original

\* the array replaceLoadDataModal returns
FactoryPair == <<"LoadDataModalFactory", "CustomLoadDataModalFactory">>

NotCalled == [type |-> "none"]
TypeError == [type |-> "TypeError"]

InitModal ==
    /\ factoryDeps \in DepLists
    /\ customDeps = InheritedDeps(factoryDeps)
    /\ \E other \in OtherDefaultProps, methods \in SeqsUpTo(DefaultMethodUniverse, MaxDefaults) :
           factoryDefaults = SpreadWithLoadingMethods(other, methods)
    /\ sharedComponent \in BOOLEAN
    /\ defaultProps = factoryDefaults
    /\ factoryCalls = <<>>
    /\ lastDeps = <<>>
    /\ lastResult = NotCalled
    /\ invocations = 0
    /\ before = factoryDefaults
    /\ afterFirst = factoryDefaults
    /\ replaced = <<>>

\* const CustomLoadDataModalFactory = (...deps) => {...}
CustomLoadDataModalFactory(deps) ==
    /\ invocations < MaxInvocations
    /\ LET LoadDataModal == LoadDataModalFactory(deps)
           defaultLoadingMethods == LoadDataModal.loadingMethods
           after == IF FindThrows(defaultLoadingMethods)
                    THEN LoadDataModal
                    ELSE NewDefaultProps(LoadDataModal, NewLoadingMethods(defaultLoadingMethods))
       IN  /\ factoryCalls' = OriginalFactoryCalls(deps)
           /\ before' = LoadDataModal
           /\ defaultProps' = after
           /\ lastResult' = IF FindThrows(defaultLoadingMethods)
                            THEN TypeError
                            ELSE withState("LoadDataModal")
           /\ afterFirst' = IF invocations = 0 THEN after ELSE afterFirst
    /\ lastDeps' = deps
    /\ invocations' = invocations + 1
    /\ UNCHANGED <<factoryDeps, customDeps, factoryDefaults, sharedComponent, replaced>>

\* export function replaceLoadDataModal()
replaceLoadDataModal ==
    /\ replaced' = FactoryPair
    /\ UNCHANGED <<factoryDeps, customDeps, factoryDefaults, sharedComponent, defaultProps,
                   factoryCalls, lastDeps, lastResult, invocations, before, afterFirst>>

Invoke == \E deps \in SeqsUpTo(DepValues, MaxDeps) : CustomLoadDataModalFactory(deps)

NextModal ==
    \/ Invoke /\ UNCHANGED appVars
    \/ replaceLoadDataModal /\ UNCHANGED appVars

\* ====================================================================
\* Part 2: the terrain demo App
\* ====================================================================

\* coordinates, angles and zoom levels are kept in units of 1/10000
INITIAL_VIEW_STATE ==
    [latitude |-> 462400, longitude |-> -1221800, zoom |-> 115000,
     bearing |-> 1400000, pitch |-> 600000]

\* the initial value of viewStateB, lines 188-194
INITIAL_VIEW_STATE_B ==
    [latitude |-> 361101, longitude |-> -1121906, zoom |-> 125000,
     pitch |-> 200000, bearing |-> 150000]

\* the i-th pose the user can drag the camera to
Pose(i) ==
    [latitude |-> 400000 + i, longitude |-> -1200000 - i, zoom |-> 100000 + i,
     bearing |-> 10000 * i, pitch |-> 300000]

\* the view states deck.gl reports through onViewStateChange
ViewStates == {INITIAL_VIEW_STATE} \cup { Pose(i) : i \in 1..MaxPoses }

CameraModes == {"prerecorded", "fly-to"}

\* variant: one easing missing
ShortEasingsCameraKeyframes ==
    [type |-> "CameraKeyframes",
     timings |-> <<0, 6000, 7000, 8000, 14000>>,
     keyframes |-> << INITIAL_VIEW_STATE, INITIAL_VIEW_STATE, INITIAL_VIEW_STATE_B,
                      INITIAL_VIEW_STATE_B, INITIAL_VIEW_STATE_B >>,
     easings |-> <<"easeInOut", "hold", "easeInOut">>]

\* const getPrerecordedCameraKeyframes = () => new CameraKeyframes({...})
getPrerecordedCameraKeyframes ==
    [type |-> "CameraKeyframes",
     timings |-> <<0, 6000, 7000, 8000, 14000>>,
     keyframes |->
        << [latitude |-> 462400, longitude |-> -1221800, zoom |-> 115000,
            bearing |-> 1400000, pitch |-> 600000],
           [latitude |-> 462400, longitude |-> -1221800, zoom |-> 115000,
            bearing |-> 0, pitch |-> 600000],
           [latitude |-> 361101, longitude |-> -1121906, zoom |-> 125000,
            pitch |-> 200000, bearing |-> 150000],
           [latitude |-> 361101, longitude |-> -1121906, zoom |-> 125000,
            pitch |-> 200000, bearing |-> 150000],
           [latitude |-> 361101, longitude |-> -1121906, zoom |-> 125000,
            pitch |-> 600000, bearing |-> 1800000] >>,
     easings |-> <<"easeInOut", "hold", "easeInOut", "easeInOut">>]

\* const getKeyframes = () => ({terrain: new LayerKeyframes({...})})
getKeyframes ==
    [terrain |->
        [type |-> "LayerKeyframes",
         layerId |-> "terrain",
         features |-> <<"r", "g", "b">>,
         keyframes |->
            << [r |-> 255, g |-> 255, b |-> 255],
               [r |-> 255, g |-> 0, b |-> 0],
               [r |-> 255, g |-> 255, b |-> 0],
               [r |-> 0, g |-> 255, b |-> 0],
               [r |-> 0, g |-> 255, b |-> 255],
               [r |-> 0, g |-> 0, b |-> 255],
               [r |-> 255, g |-> 0, b |-> 255],
               [r |-> 255, g |-> 255, b |-> 255] >>,
         timings |-> <<0, 2000, 4000, 6000, 8000, 10000, 12000, 14000>>,
         easings |-> <<"linear", "linear", "linear", "linear", "linear", "linear", "linear">>]]

\* the closure getFlyToCameraKeyframes of one render, with the state it captured
getFlyToCameraKeyframes(a, b) ==
    [fn |-> "getFlyToCameraKeyframes", viewStateA |-> a, viewStateB |-> b]

\* the module-level getter, which captures nothing of the render
PrerecordedGetter(a, b) ==
    [fn |-> "getPrerecordedCameraKeyframes", viewStateA |-> INITIAL_VIEW_STATE,
     viewStateB |-> INITIAL_VIEW_STATE_B]

\* variant: a fly-to getter that kept the endpoints of the first render
InitialEndpointsGetter(cm, a, b) ==
    IF cm = "prerecorded" THEN PrerecordedGetter(a, b)
    ELSE getFlyToCameraKeyframes(INITIAL_VIEW_STATE, INITIAL_VIEW_STATE_B)

\* const getCameraKeyframes = cameraMode === 'prerecorded' ? ... : ...
getCameraKeyframes(cm, a, b) ==
    IF cm = "prerecorded" THEN PrerecordedGetter(a, b) ELSE getFlyToCameraKeyframes(a, b)

\* calling a camera keyframe getter
CallGetter(getter) ==
    IF getter.fn = "getPrerecordedCameraKeyframes"
    THEN getPrerecordedCameraKeyframes
    ELSE [type |-> "FlyToKeyframes", start |-> getter.viewStateA, end |-> getter.viewStateB,
          width |-> 640, height |-> 480, curve |-> 1]

\* variant: controls rendered whatever ready is
AlwaysControls(rdy, props) == <<props>>

\* {ready && <BasicControls ... />}
WhenReady(rdy, props) == IF rdy THEN <<props>> ELSE <<>>

\* disabled={cameraMode === 'prerecorded'}
ButtonDisabled(cm) == cm = "prerecorded"

\* what one render of App hands to its children: the JSX of lines 244-288
Render(rdy, bsy, vs, a, b, rb, cm) ==
    [deck |-> [initialViewState |-> INITIAL_VIEW_STATE, viewState |-> vs,
               texture |-> IF rb THEN "null" ELSE "SURFACE_IMAGE"],
     controls |-> WhenReady(rdy, [busy |-> bsy,
                                  getCameraKeyframes |-> getCameraKeyframes(cm, a, b)]),
     checkbox |-> [checked |-> rb],
     select |-> [value |-> cm],
     startButton |-> [disabled |-> ButtonDisabled(cm), viewState |-> vs],
     endButton |-> [disabled |-> ButtonDisabled(cm), viewState |-> vs]]

InitApp ==
    /\ ready = FALSE
    /\ busy = FALSE
    /\ viewState = INITIAL_VIEW_STATE
    /\ viewStateA = viewState
    /\ viewStateB = INITIAL_VIEW_STATE_B
    /\ rainbow = FALSE
    /\ cameraMode = "prerecorded"
    /\ view = Render(ready, busy, viewState, viewStateA, viewStateB, rainbow, cameraMode)
    /\ recording = <<>>
    /\ lastEvent = "none"
    /\ leftPrerecorded = FALSE
    /\ signalled = FALSE

\* every handler ends with React rendering App again from the new state
Rerender ==
    view' = Render(ready', busy', viewState', viewStateA', viewStateB', rainbow', cameraMode')

\* onViewStateChange={({viewState: vs}) => setViewState(vs)}
onViewStateChange(vs) ==
    /\ viewState' = vs
    /\ lastEvent' = "onViewStateChange"
    /\ UNCHANGED <<ready, busy, viewStateA, viewStateB, rainbow, cameraMode, recording,
                   leftPrerecorded, signalled>>
    /\ Rerender

\* the adapter calls the setReady it was given by adapter.getProps
setReady(value) ==
    /\ ready' = value
    /\ signalled' = (signalled \/ value)
    /\ lastEvent' = "setReady"
    /\ UNCHANGED <<busy, viewState, viewStateA, viewStateB, rainbow, cameraMode, recording,
                   leftPrerecorded>>
    /\ Rerender

\* BasicControls starts a render: it hands its getters to the adapter and calls setBusy(true)
StartRender ==
    /\ Len(view.controls) = 1
    /\ ~view.controls[1].busy
    /\ recording' = << [camera |-> CallGetter(view.controls[1].getCameraKeyframes),
                        keyframes |-> getKeyframes] >>
    /\ busy' = TRUE
    /\ lastEvent' = "startRender"
    /\ UNCHANGED <<ready, viewState, viewStateA, viewStateB, rainbow, cameraMode,
                   leftPrerecorded, signalled>>
    /\ Rerender

\* the render ends: the completion callback of BasicControls calls setBusy(false)
FinishRender ==
    /\ busy
    /\ busy' = FALSE
    /\ lastEvent' = "finishRender"
    /\ UNCHANGED <<ready, viewState, viewStateA, viewStateB, rainbow, cameraMode, recording,
                   leftPrerecorded, signalled>>
    /\ Rerender

\* onChange={() => setRainbow(!rainbow)}
ToggleRainbow ==
    /\ rainbow' = ~view.checkbox.checked
    /\ lastEvent' = "toggleRainbow"
    /\ UNCHANGED <<ready, busy, viewState, viewStateA, viewStateB, cameraMode, recording,
                   leftPrerecorded, signalled>>
    /\ Rerender

\* onChange={e => setCameraMode(e.currentTarget.value)}
SelectCameraMode(value) ==
    /\ cameraMode' = value
    /\ leftPrerecorded' = (leftPrerecorded \/ value # "prerecorded")
    /\ lastEvent' = "selectCameraMode"
    /\ UNCHANGED <<ready, busy, viewState, viewStateA, viewStateB, rainbow, recording,
                   signalled>>
    /\ Rerender

\* variant: the start button also overwrites the end point
SetBothEndpoints ==
    /\ ~view.startButton.disabled
    /\ viewStateA' = view.startButton.viewState
    /\ viewStateB' = view.startButton.viewState
    /\ lastEvent' = "setFlyToStart"
    /\ UNCHANGED <<ready, busy, viewState, rainbow, cameraMode, recording,
                   leftPrerecorded, signalled>>
    /\ Rerender

\* <button disabled={...} onClick={() => setViewStateA(viewState)}>
SetFlyToStart ==
    /\ ~view.startButton.disabled
    /\ viewStateA' = view.startButton.viewState
    /\ lastEvent' = "setFlyToStart"
    /\ UNCHANGED <<ready, busy, viewState, viewStateB, rainbow, cameraMode, recording,
                   leftPrerecorded, signalled>>
    /\ Rerender

\* <button disabled={...} onClick={() => setViewStateB(viewState)}>
SetFlyToEnd ==
    /\ ~view.endButton.disabled
    /\ viewStateB' = view.endButton.viewState
    /\ lastEvent' = "setFlyToEnd"
    /\ UNCHANGED <<ready, busy, viewState, viewStateA, rainbow, cameraMode, recording,
                   leftPrerecorded, signalled>>
    /\ Rerender

MoveCamera == \E vs \in ViewStates : onViewStateChange(vs)
AdapterSetsReady == \E value \in BOOLEAN : setReady(value)
ChooseCameraMode == \E value \in CameraModes : SelectCameraMode(value)

NextApp ==
    \/ MoveCamera /\ UNCHANGED modalVars
    \/ AdapterSetsReady /\ UNCHANGED modalVars
    \/ StartRender /\ UNCHANGED modalVars
    \/ FinishRender /\ UNCHANGED modalVars
    \/ ToggleRainbow /\ UNCHANGED modalVars
    \/ ChooseCameraMode /\ UNCHANGED modalVars
    \/ SetFlyToStart /\ UNCHANGED modalVars
    \/ SetFlyToEnd /\ UNCHANGED modalVars

\* ====================================================================
\* Specifications
\* ====================================================================

\* the modal with kepler.gl's usual defaults, while the App runs
ModalIdle ==
    /\ InitModal
    /\ factoryDeps = <<>>
    /\ sharedComponent = FALSE
    /\ factoryDefaults = [loadingMethods |-> <<>>]

InitModalSpec == InitModal /\ InitApp

InitAppSpec == ModalIdle /\ InitApp

SpecModal == InitModalSpec /\ [][NextModal]_vars

SpecApp == InitAppSpec /\ [][NextApp]_vars

\* ====================================================================
\* Properties of the factory override (checked under SpecModal)
\* ====================================================================

HasId(lm, id) == "id" \in DOMAIN lm /\ lm.id = id

Positions(methods, id) == { i \in 1..Len(methods) : HasId(methods[i], id) }

Invoked == invocations >= 1

\* C1: once CustomLoadDataModalFactory has been invoked, the modal's default
\* loadingMethods holds exactly one entry with the sample id, and that entry has exactly
\* the fields id, label, elementType, tabElementType with the values of additionalMethods.sample.
C1_ExactlyOneSampleEntry ==
    Invoked =>
        LET methods == defaultProps.loadingMethods
            samples == Positions(methods, LOADING_METHODS.sample)
        IN  /\ Cardinality(samples) = 1
            /\ \A i \in samples :
                  /\ DOMAIN methods[i] = {"id", "label", "elementType", "tabElementType"}
                  /\ methods[i].id = "sample"
                  /\ methods[i].label = "Sample Maps"
                  /\ methods[i].elementType = SampleMapGallery
                  /\ methods[i].tabElementType = SampleMapsTab

\* a successful invocation on defaults that already held a method with the sample id
C1_Witness ==
    /\ Invoked
    /\ lastResult.type = "withState"
    /\ Positions(before.loadingMethods, "sample") # {}
    /\ Positions(before.loadingMethods, "upload") # {}

\* C2: the customization only adds: every default loading method found by the
\* invocation is still in the list afterwards, and the sample method is in it too.
C2_OnlyAdds ==
    Invoked =>
        LET old == before.loadingMethods
            new == defaultProps.loadingMethods
        IN  /\ \A i \in 1..Len(old) : \E j \in 1..Len(new) : new[j] = old[i]
            /\ \E j \in 1..Len(new) : new[j] = additionalMethods.sample

\* C3: replaceLoadDataModal returns [LoadDataModalFactory, CustomLoadDataModalFactory];
\* the replacement declares the original's deps; an invocation calls the original
\* exactly once, with the deps it received, in the same order.
C3_ReplacementPair ==
    /\ replaced # <<>> =>
          /\ Len(replaced) = 2
          /\ replaced[1] = "LoadDataModalFactory"
          /\ replaced[2] = "CustomLoadDataModalFactory"
    /\ customDeps = factoryDeps
    /\ Invoked =>
          /\ Len(factoryCalls) = 1
          /\ factoryCalls[1] = lastDeps

\* the pair was asked for and the replacement was invoked with two different dependencies
C3_Witness ==
    /\ replaced # <<>>
    /\ Invoked
    /\ Len(factoryDeps) = 2
    /\ Len(lastDeps) = 2
    /\ lastDeps[1] # lastDeps[2]

\* C5: only loadingMethods is overridden: every other key of defaultProps is there
\* afterwards with the value it had, and no other key is added or removed.
C5_OnlyLoadingMethodsOverridden ==
    Invoked =>
        /\ (DOMAIN defaultProps) \ {"loadingMethods"} = (DOMAIN before) \ {"loadingMethods"}
        /\ \A k \in (DOMAIN before) \ {"loadingMethods"} : defaultProps[k] = before[k]

\* an invocation that changed loadingMethods of a modal with two other default props
C5_Witness ==
    /\ Invoked
    /\ lastResult.type = "withState"
    /\ {"fileLoading", "onFileUpload"} \subseteq DOMAIN before
    /\ defaultProps.loadingMethods # before.loadingMethods

C6_WitnessUndefined ==
    /\ Invoked
    /\ lastResult.type = "withState"
    /\ Len(before.loadingMethods) = 2
    /\ defaultProps.loadingMethods[1] = Undefined

\* C10: when LoadDataModalFactory returns the same component on every call, the
\* default props after any number n >= 1 of invocations are those after the first.
C10_Idempotent ==
    (sharedComponent /\ Invoked) => defaultProps = afterFirst

\* a second invocation on the shared component went through
C10_Witness ==
    /\ sharedComponent
    /\ invocations >= 2
    /\ lastResult.type = "withState"
    /\ Len(factoryDefaults.loadingMethods) = 2

\* a second invocation on the shared component threw in the find callback
C10_WitnessThrow ==
    /\ sharedComponent
    /\ invocations >= 2
    /\ lastResult = TypeError

\* ====================================================================
\* Properties of the demo App (checked under SpecApp)
\* ====================================================================

StrictlyIncreasing(s) == \A i \in 1..(Len(s) - 1) : s[i] < s[i + 1]

WellFormedKeyframes(k) ==
    /\ Len(k.timings) >= 1
    /\ k.timings[1] = 0
    /\ StrictlyIncreasing(k.timings)
    /\ Len(k.keyframes) = Len(k.timings)
    /\ Len(k.easings) = Len(k.keyframes) - 1

ViewStateFields == {"latitude", "longitude", "zoom", "bearing", "pitch"}

\* C4: the keyframe configurations handed to the adapter are well-formed: timings
\* start at 0 and increase strictly, there are as many keyframes as timings and one
\* easing fewer, and every camera keyframe has the five view-state fields.
C4_KeyframesWellFormed ==
    \A n \in 1..Len(recording) :
        /\ WellFormedKeyframes(recording[n].keyframes.terrain)
        /\ recording[n].camera.type = "CameraKeyframes" =>
              /\ WellFormedKeyframes(recording[n].camera)
              /\ \A i \in 1..Len(recording[n].camera.keyframes) :
                    DOMAIN recording[n].camera.keyframes[i] = ViewStateFields

\* a render was started with the prerecorded camera sequence
C4_Witness ==
    /\ recording # <<>>
    /\ recording[1].camera.type = "CameraKeyframes"
    /\ Len(recording[1].camera.keyframes) = 5
    /\ Len(recording[1].keyframes.terrain.keyframes) = 8

C7_State ==
    /\ view.startButton.disabled = (cameraMode = "prerecorded")
    /\ view.endButton.disabled = (cameraMode = "prerecorded")
    /\ ~leftPrerecorded => (viewStateA = INITIAL_VIEW_STATE /\ viewStateB = INITIAL_VIEW_STATE_B)

C7_Step ==
    /\ viewStateA' # viewStateA => (lastEvent' = "setFlyToStart" /\ cameraMode # "prerecorded")
    /\ viewStateB' # viewStateB => (lastEvent' = "setFlyToEnd" /\ cameraMode # "prerecorded")
    /\ lastEvent' = "setFlyToStart" =>
          (viewStateA' = viewState /\ UNCHANGED <<viewStateB, viewState, cameraMode>>)
    /\ lastEvent' = "setFlyToEnd" =>
          (viewStateB' = viewState /\ UNCHANGED <<viewStateA, viewState, cameraMode>>)
    /\ lastEvent' = "onViewStateChange" => UNCHANGED <<viewStateA, viewStateB>>

\* C7: viewStateA and viewStateB change only through the two fly-to buttons, which
\* are disabled exactly when cameraMode is 'prerecorded'; until cameraMode leaves
\* 'prerecorded' both keep their initial values; a click stores the current
\* viewState in one endpoint and leaves the other, viewState and cameraMode alone;
\* camera moves leave both endpoints alone.
C7_FlyToEndpoints == []C7_State /\ [][C7_Step]_vars

\* the start point was captured, and the camera has moved on since
C7_Witness ==
    /\ lastEvent = "onViewStateChange"
    /\ viewStateA # INITIAL_VIEW_STATE
    /\ viewState # viewStateA
    /\ viewStateB = INITIAL_VIEW_STATE_B

C8_State ==
    Len(view.controls) = 1 =>
        LET getter == view.controls[1].getCameraKeyframes
        IN  IF cameraMode = "prerecorded"
            THEN /\ getter.fn = "getPrerecordedCameraKeyframes"
                 /\ CallGetter(getter).type = "CameraKeyframes"
            ELSE /\ getter.fn = "getFlyToCameraKeyframes"
                 /\ CallGetter(getter).type = "FlyToKeyframes"
                 /\ CallGetter(getter).start = viewStateA
                 /\ CallGetter(getter).end = viewStateB

\* C8: the getter handed to the controls follows cameraMode: the prerecorded sequence
\* for 'prerecorded', otherwise the fly-to getter over the current viewStateA and
\* viewStateB; cameraMode starts as 'prerecorded' and changes only through the selector.
C8_GetterFollowsMode ==
    /\ cameraMode = "prerecorded"
    /\ []C8_State
    /\ [][cameraMode' # cameraMode => lastEvent' = "selectCameraMode"]_vars

\* controls rendered in fly-to mode after both endpoints were captured
C8_Witness ==
    /\ Len(view.controls) = 1
    /\ cameraMode = "fly-to"
    /\ viewStateA # INITIAL_VIEW_STATE
    /\ viewStateB # INITIAL_VIEW_STATE_B
    /\ viewStateA # viewStateB

\* C9: BasicControls is rendered exactly when ready is true; ready starts false and
\* changes only through setReady; no render is started before the adapter signalled
\* readiness; busy starts false and changes only through the controls' setBusy.
C9_ControlsWhenReady ==
    /\ ready = FALSE /\ busy = FALSE
    /\ []((Len(view.controls) = 1) <=> ready)
    /\ [](recording # <<>> => signalled)
    /\ [][ready' # ready => lastEvent' = "setReady"]_vars
    /\ [][busy' # busy => lastEvent' \in {"startRender", "finishRender"}]_vars
    /\ [][lastEvent' = "startRender" => ready]_vars

\* a render was started and the adapter took readiness back afterwards
C9_Witness ==
    /\ recording # <<>>
    /\ busy
    /\ ~ready
    /\ Len(view.controls) = 0

====
